---- MODULE Spec2Model ----
(***************************************************************************)
(* Model of server.js: the Express server that asks a completion endpoint  *)
(* for a Solidity contract, strips markdown fences, writes the contract    *)
(* and a migration script, and runs "truffle compile && truffle migrate".  *)
(*                                                                         *)
(* Text is a sequence of symbols.  A symbol is one character (a backtick, *)
(* " ", "x", ...) or a literal that the regular expressions of the program *)
(* name, kept as one symbol: "contract", "CustomMortgageLoan" and          *)
(* "contract address:".  The literal symbols made of word characters are   *)
(* word symbols wherever a regular expression asks (\w, \b).               *)
(***************************************************************************)
EXTENDS Integers, Sequences, FiniteSets, TLC

VARIABLES
    pc,                 \* per request: where its handler stands
    route,              \* per request: the route it came in on, "none" before it arrived
    completionCalls,    \* per request: the number of createChatCompletion calls sent
    completion,         \* per request: how its completion call settled, kind "none" before
    solidityCode,       \* per request: the local solidityCode
    timestamp,          \* per request: the local timestamp, 0 before Date.now() was read
    solFilePath,        \* per request: the local solFilePath once written to, <<>> before
    migrationFilePath,  \* per request: the local migrationFilePath once written to
    files,              \* the file system: path -> content
    clock,              \* Date.now()
    running,            \* the request whose handler holds the event loop, 0 for none
    sent,               \* per request: the responses sent on res, in order
    log,                \* per request: the steps its handler took, in order
    arg,        \* the argument of the function under study (pure-function specifications)
    ret,        \* its result
    ret2,       \* the result of applying it again to ret
    step        \* "in" before the function ran, "once" after, "twice" after the second run

hvars == <<arg, ret, ret2, step>>

svars ==
    <<pc, route, completionCalls, completion, solidityCode, timestamp, solFilePath,
      migrationFilePath, files, clock, running, sent, log>>

vars == <<svars, hvars>>

(***************************************************************************)
(* Bounds of the model.                                                    *)
(***************************************************************************)
MaxStripLen == 7

MaxRewriteLen == 6

MaxStdoutLen == 5

MaxLineTail == 2

MaxClock == 2

NumRequests == 2

(***************************************************************************)
(* Character classes of JavaScript regular expressions.                    *)
(***************************************************************************)
\* the backtick character (written BQ: the lexer of TLA+ reserves the character itself)
Backtick == "BQ"

\* \w : [A-Za-z0-9_]
WordChars ==
    {"x", "a", "g", "0", "_", "contract", "CustomMortgageLoan"}
        \cup {ToString(t) : t \in 0..(MaxClock + 1)}

\* \s, and what String.prototype.trim removes
WhiteSpace == {" ", "\n"}

IsWord(c) == c \in WordChars

IsSpace(c) == c \in WhiteSpace

\* all texts over alphabet A of length at most n
TextsUpTo(A, n) == UNION {[1..k -> A] : k \in 0..n}

Drop(s, n) == SubSeq(s, n + 1, Len(s))

(***************************************************************************)
(* The server state before any request (server.js:9-18, 215-218).          *)
(***************************************************************************)
Requests == 1..NumRequests

NoPath == <<>>

ServerInit ==
    /\ pc = [r \in Requests |-> "idle"]
    /\ route = [r \in Requests |-> "none"]
    /\ completionCalls = [r \in Requests |-> 0]
    /\ completion = [r \in Requests |-> [kind |-> "none", message |-> ""]]
    /\ solidityCode = [r \in Requests |-> <<>>]
    /\ timestamp = [r \in Requests |-> 0]
    /\ solFilePath = [r \in Requests |-> NoPath]
    /\ migrationFilePath = [r \in Requests |-> NoPath]
    /\ files = <<>>
    /\ clock = 1
    /\ running = 0
    /\ sent = [r \in Requests |-> <<>>]
    /\ log = [r \in Requests |-> <<>>]

(***************************************************************************)
(* stripMarkdownFences (server.js:39-49)                                   *)
(***************************************************************************)
\* s starts with three backticks
StartsWithFence(s) ==
    /\ Len(s) >= 3
    /\ s[1] = Backtick
    /\ s[2] = Backtick
    /\ s[3] = Backtick

\* the greedy (\w+)? : s without its longest prefix of word characters
RECURSIVE DropWord(_)
DropWord(s) ==
    IF s # <<>> /\ IsWord(Head(s)) THEN DropWord(Tail(s)) ELSE s

\* .replace(/BQBQBQ(\w+)?/g, '') : leftmost matches, left to right, each removed
RECURSIVE ReplaceTaggedFences(_)
ReplaceTaggedFences(s) ==
    IF s = <<>> THEN <<>>
    ELSE IF StartsWithFence(s) THEN ReplaceTaggedFences(DropWord(Drop(s, 3)))
    ELSE <<Head(s)>> \o ReplaceTaggedFences(Tail(s))

\* .replace(/BQBQBQ/g, '')
RECURSIVE ReplaceBareFences(_)
ReplaceBareFences(s) ==
    IF s = <<>> THEN <<>>
    ELSE IF StartsWithFence(s) THEN ReplaceBareFences(Drop(s, 3))
    ELSE <<Head(s)>> \o ReplaceBareFences(Tail(s))

RECURSIVE TrimStart(_)
TrimStart(s) ==
    IF s # <<>> /\ IsSpace(Head(s)) THEN TrimStart(Tail(s)) ELSE s

RECURSIVE TrimEnd(_)
TrimEnd(s) ==
    IF s # <<>> /\ IsSpace(s[Len(s)]) THEN TrimEnd(SubSeq(s, 1, Len(s) - 1)) ELSE s

\* String.prototype.trim
Trim(s) == TrimEnd(TrimStart(s))

\* a plausible slip: trimming before the fences are removed
StripTrimFirst(text) == ReplaceBareFences(ReplaceTaggedFences(Trim(text)))

\* a plausible slip: only an opening fence with its language tag is removed
RECURSIVE ReplaceOpenersOnly(_)
ReplaceOpenersOnly(s) ==
    IF s = <<>> THEN <<>>
    ELSE IF StartsWithFence(s) /\ Len(s) >= 4 /\ IsWord(s[4])
         THEN ReplaceOpenersOnly(DropWord(Drop(s, 3)))
    ELSE <<Head(s)>> \o ReplaceOpenersOnly(Tail(s))

StripOpenersOnly(text) == Trim(ReplaceOpenersOnly(text))

stripMarkdownFences(text) == Trim(ReplaceBareFences(ReplaceTaggedFences(text)))

(***************************************************************************)
(* Specification of stripMarkdownFences alone: any text over backticks,    *)
(* word characters, whitespace and other characters, stripped twice.       *)
(***************************************************************************)
StripAlphabet == {Backtick, "x", " ", "{"}

StripInit ==
    /\ ServerInit
    /\ arg \in TextsUpTo(StripAlphabet, MaxStripLen)
    /\ ret = <<>>
    /\ ret2 = <<>>
    /\ step = "in"

StripOnce ==
    /\ step = "in"
    /\ ret' = stripMarkdownFences(arg)
    /\ step' = "once"
    /\ UNCHANGED <<arg, ret2, svars>>

StripTwice ==
    /\ step = "once"
    /\ ret2' = stripMarkdownFences(ret)
    /\ step' = "twice"
    /\ UNCHANGED <<arg, ret, svars>>

StripNext == StripOnce \/ StripTwice

SpecStrip == StripInit /\ [][StripNext]_vars

\* some three consecutive symbols of s are backticks
HasTripleBacktick(s) ==
    \E i \in 1..(Len(s) - 2) : s[i] = Backtick /\ s[i + 1] = Backtick /\ s[i + 2] = Backtick

\* C5: stripping a stripped text changes nothing: strip(strip(x)) = strip(x)
C5_StripIdempotent == step = "twice" => ret2 = ret

\* a text with a tagged fence, a closing fence and surrounding whitespace was stripped twice
C5_Witness ==
    /\ step = "twice"
    /\ HasTripleBacktick(arg)
    /\ \E i \in 1..(Len(arg) - 3) : StartsWithFence(Drop(arg, i - 1)) /\ IsWord(arg[i + 3])
    /\ ret # arg
    /\ ret # <<>>

\* C6: the stripped text holds no three consecutive backticks and neither starts
\* nor ends with whitespace
C6_NoFenceNoPadding ==
    step # "in" =>
        /\ ~HasTripleBacktick(ret)
        /\ ret # <<>> => ~IsSpace(ret[1]) /\ ~IsSpace(ret[Len(ret)])

\* a fence with its language tag was removed and two adjacent backticks are left in
\* the result
C6_Witness ==
    /\ step = "once"
    /\ \E i \in 1..(Len(arg) - 3) : StartsWithFence(Drop(arg, i - 1)) /\ IsWord(arg[i + 3])
    /\ \E i \in 1..(Len(ret) - 1) : ret[i] = Backtick /\ ret[i + 1] = Backtick
    /\ \E i \in 1..Len(arg) : IsSpace(arg[i])

(***************************************************************************)
(* The name rewrite of /auto-deploy (server.js:137-153)                    *)
(***************************************************************************)
BaseName == "CustomMortgageLoan"

\* `CustomMortgageLoan_${timestamp}` (server.js:138)
ContractName(ts) == <<BaseName, "_", ToString(ts)>>

\* the length of the longest prefix of whitespace: the greedy \s+
RECURSIVE SpaceRun(_)
SpaceRun(s) ==
    IF s # <<>> /\ IsSpace(Head(s)) THEN 1 + SpaceRun(Tail(s)) ELSE 0

\* a slip: the pattern without its closing \b
DeclMatchLenNoBoundary(s) ==
    IF s # <<>> /\ Head(s) = "contract"
    THEN LET n == SpaceRun(Tail(s)) IN
         IF n >= 1 /\ Len(s) >= n + 2 /\ s[n + 2] = BaseName THEN n + 2 ELSE 0
    ELSE 0

\* /contract\s+CustomMortgageLoan\b/ matched at the start of s: the length of the
\* match, 0 when there is none
DeclMatchLen(s) ==
    IF s # <<>> /\ Head(s) = "contract"
    THEN LET n == SpaceRun(Tail(s)) IN
         IF /\ n >= 1
            /\ Len(s) >= n + 2
            /\ s[n + 2] = BaseName
            /\ (Len(s) = n + 2 \/ ~IsWord(s[n + 3]))
         THEN n + 2
         ELSE 0
    ELSE 0

\* solidityCode.replace(/contract\s+CustomMortgageLoan\b/g, `contract ${contractName}`)
RECURSIVE RenameContract(_, _)
RenameContract(s, contractName) ==
    IF s = <<>> THEN <<>>
    ELSE LET n == DeclMatchLen(s) IN
         IF n > 0
         THEN <<"contract", " ">> \o contractName \o RenameContract(Drop(s, n), contractName)
         ELSE <<Head(s)>> \o RenameContract(Tail(s), contractName)

(***************************************************************************)
(* Specification of the name rewrite alone.                                *)
(***************************************************************************)
RewriteAlphabet == {"contract", BaseName, "x", " ", "{"}

RewriteInit ==
    /\ ServerInit
    /\ arg \in [text : TextsUpTo(RewriteAlphabet, MaxRewriteLen), timestamp : 1..MaxClock]
    /\ ret = <<>>
    /\ ret2 = <<>>
    /\ step = "in"

Rewrite ==
    /\ step = "in"
    /\ ret' = RenameContract(arg.text, ContractName(arg.timestamp))
    /\ step' = "once"
    /\ UNCHANGED <<arg, ret2, svars>>

RewriteNext == Rewrite

SpecRewrite == RewriteInit /\ [][RewriteNext]_vars

\* s[i..j] is: "contract", then whitespace, then the base name not followed by a word
\* character; with keyword set, "contract" is also not preceded by a word character
IsDeclaration(s, i, j, keyword) ==
    /\ s[i] = "contract"
    /\ j > i + 1
    /\ \A k \in (i + 1)..(j - 1) : IsSpace(s[k])
    /\ s[j] = BaseName
    /\ (j = Len(s) \/ ~IsWord(s[j + 1]))
    /\ (keyword => (i = 1 \/ ~IsWord(s[i - 1])))

\* what position i of s contributes to the rewritten text
RewrittenAt(s, i, name, keyword) ==
    IF \E j \in i..Len(s) : IsDeclaration(s, i, j, keyword)
    THEN <<"contract", " ">> \o name
    ELSE IF \E h \in 1..(i - 1) : \E j \in i..Len(s) : IsDeclaration(s, h, j, keyword)
    THEN <<>>
    ELSE <<s[i]>>

RECURSIVE RewrittenFrom(_, _, _, _)
RewrittenFrom(s, i, name, keyword) ==
    IF i > Len(s) THEN <<>>
    ELSE RewrittenAt(s, i, name, keyword) \o RewrittenFrom(s, i + 1, name, keyword)

\* C7 as stated: exactly the declarations "contract B", with contract the keyword, are
\* replaced by "contract Q", and every other symbol of the text is kept as it is
C7_RewritesKeywordDeclarations ==
    step = "once" =>
        ret = RewrittenFrom(arg.text, 1, ContractName(arg.timestamp), TRUE)

\* C7 as amended: exactly the occurrences of the text "contract", whitespace, B (B not
\* followed by a word character) are replaced by "contract Q", also where "contract"
\* ends a longer identifier, and every other symbol of the text is kept as it is
C7_RewritesPatternOccurrences ==
    step = "once" =>
        ret = RewrittenFrom(arg.text, 1, ContractName(arg.timestamp), FALSE)

\* a text with a declaration of B, another use of B and an identifier starting with B
\* was rewritten
C7_Witness ==
    /\ step = "once"
    /\ \E i, j \in 1..Len(arg.text) : IsDeclaration(arg.text, i, j, TRUE)
    /\ \E i \in 1..(Len(arg.text) - 1) : arg.text[i] = BaseName /\ arg.text[i + 1] = "x"
    /\ ret # arg.text

(***************************************************************************)
(* The callback of exec in /auto-deploy (server.js:184-206)                *)
(***************************************************************************)
HexDigits == {"0", "a"}

AddressLabel == "contract address:"

\* the longest prefix of hexadecimal digits: the greedy [a-fA-F0-9]+
RECURSIVE HexRun(_)
HexRun(s) ==
    IF s # <<>> /\ Head(s) \in HexDigits THEN <<Head(s)>> \o HexRun(Tail(s)) ELSE <<>>

\* a slip: \s* where the pattern has \s+
AddressAtNoSpace(s) ==
    IF s # <<>> /\ Head(s) = AddressLabel
    THEN LET n == SpaceRun(Tail(s))
             t == Drop(s, n + 1)
         IN IF Len(t) >= 3 /\ t[1] = "0" /\ t[2] = "x" /\ t[3] \in HexDigits
            THEN <<"0", "x">> \o HexRun(Drop(t, 2))
            ELSE <<>>
    ELSE <<>>

\* /contract address:\s+(0x[a-fA-F0-9]+)/ matched at the start of s: its group 1,
\* <<>> when there is no match
AddressAt(s) ==
    IF s # <<>> /\ Head(s) = AddressLabel
    THEN LET n == SpaceRun(Tail(s))
             t == Drop(s, n + 1)
         IN IF n >= 1 /\ Len(t) >= 3 /\ t[1] = "0" /\ t[2] = "x" /\ t[3] \in HexDigits
            THEN <<"0", "x">> \o HexRun(Drop(t, 2))
            ELSE <<>>
    ELSE <<>>

\* stdout.match(...): group 1 of the leftmost match, <<>> for null
RECURSIVE MatchAddress(_)
MatchAddress(s) ==
    IF s = <<>> THEN <<>>
    ELSE IF AddressAt(s) # <<>> THEN AddressAt(s)
    ELSE MatchAddress(Tail(s))

\* '0x0000000000000000000000000000000000000000'
ZeroAddress == <<"0", "x">> \o [i \in 1..40 |-> "0"]

DeployFailed == [status |-> 500, body |-> [error |-> "Failed to compile or deploy contract"]]

DeployedNoAddress ==
    [status |-> 200,
     body |-> [contractAddress |-> ZeroAddress,
               info |-> "Contract deployed but no address found in logs."]]

Deployed(contractAddress) == [status |-> 200, body |-> [contractAddress |-> contractAddress]]

\* a slip: the address is looked for before err is examined
ExecCallbackAddressFirst(err, stdout) ==
    IF MatchAddress(stdout) # <<>> THEN <<Deployed(MatchAddress(stdout))>>
    ELSE IF err # "none" THEN <<DeployFailed>>
    ELSE <<DeployedNoAddress>>

\* a slip: the error branch without its return
ExecCallbackNoReturn(err, stdout) ==
    (IF err # "none" THEN <<DeployFailed>> ELSE <<>>)
        \o (IF MatchAddress(stdout) = <<>> THEN <<DeployedNoAddress>>
            ELSE <<Deployed(MatchAddress(stdout))>>)

\* the responses the callback sends, in order
ExecCallback(err, stdout) ==
    IF err # "none" THEN <<DeployFailed>>
    ELSE IF MatchAddress(stdout) = <<>> THEN <<DeployedNoAddress>>
    ELSE <<Deployed(MatchAddress(stdout))>>

(***************************************************************************)
(* Specification of the callback alone: any way the subprocess may end,    *)
(* on any captured stdout.                                                 *)
(***************************************************************************)
StdoutAlphabet == {AddressLabel, " ", "0", "x", "a", "g"}

\* err of the callback: null, an Error of a non-zero exit, an Error of a failed spawn
ExecErrors == {"none", "exit", "spawn"}

\* lines of the shape "contract address:<spaces>0x<tail>", well formed or not
AddressLines ==
    {<<AddressLabel>> \o w \o <<"0", "x">> \o h :
        w \in TextsUpTo({" "}, MaxLineTail), h \in TextsUpTo({"0", "a", "g"}, MaxLineTail)}

Stdouts ==
    TextsUpTo(StdoutAlphabet, MaxStdoutLen)
        \cup {l1 \o sep \o l2 : l1 \in AddressLines, l2 \in AddressLines, sep \in {<<" ">>, <<"g">>}}

CallbackInit ==
    /\ ServerInit
    /\ arg \in [err : ExecErrors, stdout : Stdouts]
    /\ ret = <<>>
    /\ ret2 = <<>>
    /\ step = "in"

RunCallback ==
    /\ step = "in"
    /\ ret' = ExecCallback(arg.err, arg.stdout)
    /\ step' = "once"
    /\ UNCHANGED <<arg, ret2, svars>>

CallbackNext == RunCallback

SpecCallback == CallbackInit /\ [][CallbackNext]_vars

\* s[i] is the label, s[i+1..j] is whitespace, and "0x" and a hexadecimal digit follow
AddressLineAt(s, i, j) ==
    /\ s[i] = AddressLabel
    /\ j > i
    /\ \A k \in (i + 1)..j : IsSpace(s[k])
    /\ Len(s) >= j + 3
    /\ s[j + 1] = "0"
    /\ s[j + 2] = "x"
    /\ s[j + 3] \in HexDigits

HasAddressLine(s) == \E i, j \in 1..Len(s) : AddressLineAt(s, i, j)

\* the hexadecimal string of the first address line of s
FirstAddress(s) ==
    LET i == CHOOSE m \in 1..Len(s) :
                 /\ \E j \in 1..Len(s) : AddressLineAt(s, m, j)
                 /\ \A h \in 1..(m - 1) : \A j \in 1..Len(s) : ~AddressLineAt(s, h, j)
        j == CHOOSE n \in 1..Len(s) : AddressLineAt(s, i, n)
        e == CHOOSE n \in (j + 3)..Len(s) :
                 /\ \A k \in (j + 3)..n : s[k] \in HexDigits
                 /\ (n = Len(s) \/ s[n + 1] \notin HexDigits)
    IN SubSeq(s, j + 1, e)

\* C1: when the subprocess ends in error the one response is 500 with the fixed
\* message, whatever stdout holds
C1_FailureIsGeneric500 ==
    (step = "once" /\ arg.err # "none") =>
        ret = <<[status |-> 500, body |-> [error |-> "Failed to compile or deploy contract"]]>>

\* the subprocess failed although its stdout holds an address line
C1_Witness ==
    /\ step = "once"
    /\ arg.err # "none"
    /\ HasAddressLine(arg.stdout)
    /\ Len(ret) = 1

\* C2: when the subprocess exits 0 the one response is 200; it carries the hexadecimal
\* string of the first address line of stdout and no info when there is such a line,
\* and the 40-zero address with an info note otherwise
C2_SuccessAddressFromStdout ==
    (step = "once" /\ arg.err = "none") =>
        /\ Len(ret) = 1
        /\ ret[1].status = 200
        /\ IF HasAddressLine(arg.stdout)
           THEN ret[1].body = [contractAddress |-> FirstAddress(arg.stdout)]
           ELSE /\ DOMAIN ret[1].body = {"contractAddress", "info"}
                /\ ret[1].body.contractAddress = <<"0", "x">> \o [i \in 1..40 |-> "0"]

\* the subprocess exited 0 and stdout holds two address lines, the second with more
\* text after its whitespace than the address returned
C2_Witness ==
    /\ step = "once"
    /\ arg.err = "none"
    /\ \E i1, j1, i2, j2 \in 1..Len(arg.stdout) :
          /\ i1 < i2
          /\ AddressLineAt(arg.stdout, i1, j1)
          /\ AddressLineAt(arg.stdout, i2, j2)
          /\ Len(ret[1].body.contractAddress) < Len(arg.stdout) - j2
    /\ "info" \notin DOMAIN ret[1].body

(***************************************************************************)
(* The routes (server.js:51-212).  A handler runs on the one thread of the *)
(* event loop: from a request's arrival or the settling of one of its      *)
(* awaits up to its next await, no other handler runs (running).  The      *)
(* synchronous stretch of /auto-deploy, sections (B) to (D), is taken step *)
(* by step, since each step may throw into the catch block.                *)
(***************************************************************************)
\* message.content the completion endpoint may return
CompletionContents ==
    { <<Backtick, Backtick, Backtick, "x", "\n", "contract", " ", BaseName, " ", "{", "}",
        "\n", Backtick, Backtick, Backtick>>,
      <<" ", "contract", " ", BaseName, "{", "}", "\n">>,
      <<"contract", " ", "x", " ", "{", "}">> }

\* error.message of a rejected createChatCompletion
CompletionErrors == {"Request failed with status code 401", "connect ECONNREFUSED"}

\* how a completion call may settle: a first choice with content, a rejection, or a
\* response whose choices array is empty
CompletionResults ==
    [kind : {"ok"}, content : CompletionContents, message : {""}]
        \cup [kind : {"rejected"}, content : {<<>>}, message : CompletionErrors]
        \cup [kind : {"noChoice"}, content : {<<>>},
              message : {"Cannot read properties of undefined (reading 'message')"}]

\* stdout the subprocess may leave
ExecStdouts ==
    { <<"g", AddressLabel, " ", "0", "x", "a", "0", "g", AddressLabel, " ", "0", "x", "a">>,
      <<"g", " ", "0", "x", "a">>,
      <<>> }

FsError == "EACCES: permission denied"

SpawnError == "spawn EAGAIN"

\* a slip: the catch block answering with the fixed deployment message
CatchGeneric(message) ==
    [status |-> 500, body |-> [error |-> "Failed to compile or deploy contract"]]

\* res.status(500).json({ error: error.message }) (server.js:96, 210)
CatchResponse(message) == [status |-> 500, body |-> [error |-> message]]

\* path.join(contractsDir, `${contractName}.sol`)
SolPath(ts) == <<"contracts/">> \o ContractName(ts) \o <<".sol">>

\* path.join(migrationsDir, `${timestamp}_deploy_${contractName}.js`)
MigrationPath(ts) == <<"migrations/", ToString(ts), "_deploy_">> \o ContractName(ts) \o <<".js">>

\* the migration template, the name substituted in three places (server.js:169-175)
MigrationContent(contractName) ==
    <<"const ">> \o contractName \o <<" = artifacts.require(\"">> \o contractName
        \o <<"\"); module.exports = function (deployer) { deployer.deploy(">>
        \o contractName \o <<"); };">>

\* fs.writeFileSync(path, content)
WriteFile(path, content) == (path :> content) @@ files

\* a slip: the subprocess launched right after the source file is written
StepAfterSolSkipsMigration == "launch"

\* the step that follows section (B)
StepAfterSol == "writeMigration"

\* GET /test (server.js:52-54)
Test(r) ==
    /\ running = 0
    /\ pc[r] = "idle"
    /\ route' = [route EXCEPT ![r] = "/test"]
    /\ sent' = [sent EXCEPT ![r] = Append(@, [status |-> 200,
                                              body |-> [message |-> "Server is running!"]])]
    /\ log' = [log EXCEPT ![r] = Append(@, "respond")]
    /\ pc' = [pc EXCEPT ![r] = "done"]
    /\ UNCHANGED <<completionCalls, completion, solidityCode, timestamp, solFilePath,
                   migrationFilePath, files, clock, running, hvars>>

\* GET /generate-prompt up to its await (server.js:57-81)
GeneratePrompt(r) ==
    /\ running = 0
    /\ pc[r] = "idle"
    /\ route' = [route EXCEPT ![r] = "/generate-prompt"]
    /\ completionCalls' = [completionCalls EXCEPT ![r] = @ + 1]
    /\ pc' = [pc EXCEPT ![r] = "awaitCompletion"]
    /\ UNCHANGED <<completion, solidityCode, timestamp, solFilePath, migrationFilePath,
                   files, clock, running, sent, log, hvars>>

\* GET /generate-prompt from the settling of its await (server.js:83-97)
GeneratePromptResume(r) ==
    /\ running = 0
    /\ pc[r] = "awaitCompletion"
    /\ route[r] = "/generate-prompt"
    /\ \E result \in CompletionResults :
          /\ completion' = [completion EXCEPT ![r] =
                              [kind |-> result.kind, message |-> result.message]]
          /\ IF result.kind = "ok"
             THEN /\ sent' = [sent EXCEPT ![r] = Append(@,
                         [status |-> 200,
                          body |-> [prompt |-> "MortgageLoan prompt",
                                    generatedCode |-> stripMarkdownFences(Trim(result.content))]])]
                  /\ log' = [log EXCEPT ![r] = Append(@, "respond")]
             ELSE /\ sent' = [sent EXCEPT ![r] = Append(@, CatchResponse(result.message))]
                  /\ log' = [log EXCEPT ![r] = Append(@, "catch")]
    /\ pc' = [pc EXCEPT ![r] = "done"]
    /\ UNCHANGED <<route, completionCalls, solidityCode, timestamp, solFilePath,
                   migrationFilePath, files, clock, running, hvars>>

\* POST /auto-deploy up to its await (server.js:101-126)
AutoDeploy(r) ==
    /\ running = 0
    /\ pc[r] = "idle"
    /\ route' = [route EXCEPT ![r] = "/auto-deploy"]
    /\ completionCalls' = [completionCalls EXCEPT ![r] = @ + 1]
    /\ pc' = [pc EXCEPT ![r] = "awaitCompletion"]
    /\ UNCHANGED <<completion, solidityCode, timestamp, solFilePath, migrationFilePath,
                   files, clock, running, sent, log, hvars>>

\* POST /auto-deploy from the settling of its await to section (B) (server.js:122-132),
\* or into the catch block (server.js:208-211)
AutoDeployResume(r) ==
    /\ running = 0
    /\ pc[r] = "awaitCompletion"
    /\ route[r] = "/auto-deploy"
    /\ \E result \in CompletionResults :
          /\ completion' = [completion EXCEPT ![r] =
                              [kind |-> result.kind, message |-> result.message]]
          /\ IF result.kind = "ok"
             THEN /\ solidityCode' = [solidityCode EXCEPT ![r] =
                                         stripMarkdownFences(Trim(result.content))]
                  /\ log' = [log EXCEPT ![r] = Append(@, "completion")]
                  /\ pc' = [pc EXCEPT ![r] = "writeSol"]
                  /\ running' = r
                  /\ UNCHANGED sent
             ELSE /\ sent' = [sent EXCEPT ![r] = Append(@, CatchResponse(result.message))]
                  /\ log' = [log EXCEPT ![r] = Append(@, "catch")]
                  /\ pc' = [pc EXCEPT ![r] = "done"]
                  /\ UNCHANGED <<solidityCode, running>>
    /\ UNCHANGED <<route, completionCalls, timestamp, solFilePath, migrationFilePath,
                   files, clock, hvars>>

\* section (B): the timestamp, the name, the rewrite, the source file (server.js:137-156);
\* mkdirSync or writeFileSync may throw
WriteSol(r) ==
    /\ running = r
    /\ pc[r] = "writeSol"
    /\ timestamp' = [timestamp EXCEPT ![r] = clock]
    /\ \E fsOk \in BOOLEAN :
          IF fsOk
          THEN /\ files' = WriteFile(SolPath(clock),
                                     RenameContract(solidityCode[r], ContractName(clock)))
               /\ solFilePath' = [solFilePath EXCEPT ![r] = SolPath(clock)]
               /\ log' = [log EXCEPT ![r] = Append(@, "sol")]
               /\ pc' = [pc EXCEPT ![r] = StepAfterSol]
               /\ UNCHANGED <<sent, running>>
          ELSE /\ sent' = [sent EXCEPT ![r] = Append(@, CatchResponse(FsError))]
               /\ log' = [log EXCEPT ![r] = Append(@, "catch")]
               /\ pc' = [pc EXCEPT ![r] = "done"]
               /\ running' = 0
               /\ UNCHANGED <<files, solFilePath>>
    /\ UNCHANGED <<route, completionCalls, completion, solidityCode, migrationFilePath,
                   clock, hvars>>

\* section (C): the migration file (server.js:161-177)
WriteMigration(r) ==
    /\ running = r
    /\ pc[r] = "writeMigration"
    /\ \E fsOk \in BOOLEAN :
          IF fsOk
          THEN /\ files' = WriteFile(MigrationPath(timestamp[r]),
                                     MigrationContent(ContractName(timestamp[r])))
               /\ migrationFilePath' = [migrationFilePath EXCEPT ![r] =
                                           MigrationPath(timestamp[r])]
               /\ log' = [log EXCEPT ![r] = Append(@, "migration")]
               /\ pc' = [pc EXCEPT ![r] = "launch"]
               /\ UNCHANGED <<sent, running>>
          ELSE /\ sent' = [sent EXCEPT ![r] = Append(@, CatchResponse(FsError))]
               /\ log' = [log EXCEPT ![r] = Append(@, "catch")]
               /\ pc' = [pc EXCEPT ![r] = "done"]
               /\ running' = 0
               /\ UNCHANGED <<files, migrationFilePath>>
    /\ UNCHANGED <<route, completionCalls, completion, solidityCode, timestamp,
                   solFilePath, clock, hvars>>

\* section (D): exec(truffleCmd, ...) (server.js:182-184); exec may throw, and when it
\* returns the handler ends and the callback is pending
Launch(r) ==
    /\ running = r
    /\ pc[r] = "launch"
    /\ \E launched \in BOOLEAN :
          IF launched
          THEN /\ log' = [log EXCEPT ![r] = Append(@, "launch")]
               /\ pc' = [pc EXCEPT ![r] = "awaitExec"]
               /\ UNCHANGED sent
          ELSE /\ sent' = [sent EXCEPT ![r] = Append(@, CatchResponse(SpawnError))]
               /\ log' = [log EXCEPT ![r] = Append(@, "catch")]
               /\ pc' = [pc EXCEPT ![r] = "done"]
    /\ running' = 0
    /\ UNCHANGED <<route, completionCalls, completion, solidityCode, timestamp,
                   solFilePath, migrationFilePath, files, clock, hvars>>

\* the subprocess ends and the callback runs (server.js:184-206)
ExecDone(r) ==
    /\ running = 0
    /\ pc[r] = "awaitExec"
    /\ \E err \in ExecErrors, stdout \in ExecStdouts :
          /\ sent' = [sent EXCEPT ![r] = @ \o ExecCallback(err, stdout)]
          /\ log' = [log EXCEPT ![r] =
                        @ \o <<"exit">> \o [i \in 1..Len(ExecCallback(err, stdout)) |-> "callback"]]
    /\ pc' = [pc EXCEPT ![r] = "done"]
    /\ UNCHANGED <<route, completionCalls, completion, solidityCode, timestamp,
                   solFilePath, migrationFilePath, files, clock, running, hvars>>

\* a millisecond passes
Tick ==
    /\ clock < MaxClock
    /\ clock' = clock + 1
    /\ UNCHANGED <<pc, route, completionCalls, completion, solidityCode, timestamp,
                   solFilePath, migrationFilePath, files, running, sent, log, hvars>>

Init ==
    /\ ServerInit
    /\ arg = <<>>
    /\ ret = <<>>
    /\ ret2 = <<>>
    /\ step = "in"

Next ==
    \/ \E r \in Requests : Test(r)
    \/ \E r \in Requests : GeneratePrompt(r)
    \/ \E r \in Requests : GeneratePromptResume(r)
    \/ \E r \in Requests : AutoDeploy(r)
    \/ \E r \in Requests : AutoDeployResume(r)
    \/ \E r \in Requests : WriteSol(r)
    \/ \E r \in Requests : WriteMigration(r)
    \/ \E r \in Requests : Launch(r)
    \/ \E r \in Requests : ExecDone(r)
    \/ Tick

Spec == Init /\ [][Next]_vars

(***************************************************************************)
(* Properties of the routes.                                               *)
(***************************************************************************)
Range(s) == {s[i] : i \in 1..Len(s)}

\* the symbols of content between the symbols before and after
Between(content, before, after) ==
    LET i == CHOOSE k \in 1..Len(content) : content[k] = before
        j == CHOOSE k \in (i + 1)..Len(content) : content[k] = after
    IN SubSeq(content, i + 1, j - 1)

\* the name a migration script hands to artifacts.require
RequiredArtifact(content) ==
    Between(content, " = artifacts.require(\"", "\"); module.exports = function (deployer) { deployer.deploy(")

\* the name a migration script hands to deployer.deploy
DeployedArtifact(content) ==
    Between(content, "\"); module.exports = function (deployer) { deployer.deploy(", "); };")

\* the longest prefix of word symbols
RECURSIVE WordRun(_)
WordRun(s) ==
    IF s # <<>> /\ IsWord(Head(s)) THEN <<Head(s)>> \o WordRun(Tail(s)) ELSE <<>>

\* the contract names a Solidity source declares: the identifier after each keyword
\* contract
DeclaredContracts(src) ==
    {WordRun(Drop(src, i + SpaceRun(Drop(src, i)))) :
        i \in {k \in 1..Len(src) :
                  /\ src[k] = "contract"
                  /\ (k = 1 \/ ~IsWord(src[k - 1]))
                  /\ SpaceRun(Drop(src, k)) >= 1}}

\* a path without its directory and its extension
FileBaseName(path) == SubSeq(path, 2, Len(path) - 1)

WroteBothFiles(r) == solFilePath[r] # NoPath /\ migrationFilePath[r] # NoPath

\* C3: once a request has written both files, the name its migration script requires
\* and deploys is the one contract name its source file declares, and is the base name
\* of that source file
C3_ArtifactNameDeclared ==
    \A r \in Requests :
        WroteBothFiles(r) =>
            LET name == RequiredArtifact(files[migrationFilePath[r]]) IN
            /\ DeployedArtifact(files[migrationFilePath[r]]) = name
            /\ FileBaseName(solFilePath[r]) = name
            /\ DeclaredContracts(files[solFilePath[r]]) = {name}

\* C4: no two requests write the same source file path or the same migration file path
C4_PathsDistinct ==
    \A r1, r2 \in Requests :
        r1 # r2 =>
            /\ (solFilePath[r1] # NoPath /\ solFilePath[r2] # NoPath)
                  => solFilePath[r1] # solFilePath[r2]
            /\ (migrationFilePath[r1] # NoPath /\ migrationFilePath[r2] # NoPath)
                  => migrationFilePath[r1] # migrationFilePath[r2]

CompletionFailed(r) == completion[r].kind \in {"rejected", "noChoice"}

\* C8: a request whose completion call failed is answered once, with 500 and the
\* error's message; it sent one completion call, wrote no file and launched no
\* subprocess; and no request ever sends a second completion call
C8_FailFast ==
    \A r \in Requests :
        /\ completionCalls[r] <= 1
        /\ CompletionFailed(r) =>
              /\ sent[r] = <<[status |-> 500, body |-> [error |-> completion[r].message]]>>
              /\ completionCalls[r] = 1
              /\ pc[r] = "done"
              /\ timestamp[r] = 0
              /\ solFilePath[r] = NoPath
              /\ migrationFilePath[r] = NoPath
              /\ "launch" \notin Range(log[r])

\* a /generate-prompt request whose call was rejected and an /auto-deploy request whose
\* call returned no first choice were both answered
C8_Witness ==
    \E r1, r2 \in Requests :
        /\ route[r1] = "/generate-prompt"
        /\ completion[r1].kind = "rejected"
        /\ route[r2] = "/auto-deploy"
        /\ completion[r2].kind = "noChoice"
        /\ Len(sent[r1]) = 1
        /\ Len(sent[r2]) = 1

\* the steps of /auto-deploy in the order of the code
DeploySteps == <<"completion", "sol", "migration", "launch", "exit", "callback">>

\* the steps of a request without the catch block that may end them
StepsTaken(r) ==
    IF log[r] # <<>> /\ log[r][Len(log[r])] = "catch"
    THEN SubSeq(log[r], 1, Len(log[r]) - 1)
    ELSE log[r]

\* C9: the steps of an /auto-deploy request are a prefix of: completion returned, source
\* file written, migration file written, subprocess launched, subprocess ended,
\* response sent by the callback; a launched subprocess finds both files on disk, and
\* a 200 or the subprocess-failure response is sent only after the subprocess ended
C9_StepsInOrder ==
    \A r \in Requests :
        route[r] = "/auto-deploy" =>
            /\ Len(StepsTaken(r)) <= Len(DeploySteps)
            /\ StepsTaken(r) = SubSeq(DeploySteps, 1, Len(StepsTaken(r)))
            /\ "launch" \in Range(log[r]) =>
                  /\ WroteBothFiles(r)
                  /\ solFilePath[r] \in DOMAIN files
                  /\ migrationFilePath[r] \in DOMAIN files
            /\ \A i \in 1..Len(sent[r]) :
                  (sent[r][i].status = 200 \/ sent[r][i] = DeployFailed)
                      => "exit" \in Range(log[r])

\* an /auto-deploy request went through every step and was answered 200
C9_Witness ==
    \E r \in Requests :
        /\ route[r] = "/auto-deploy"
        /\ log[r] = DeploySteps
        /\ sent[r][1].status = 200

\* C10: a request is answered at most once; the catch block and the callback never both
\* answer it; and once its completion call and its subprocess have both ended it is
\* answered exactly once
C10_AnsweredOnce ==
    \A r \in Requests :
        /\ Len(sent[r]) <= 1
        /\ ~("catch" \in Range(log[r]) /\ "callback" \in Range(log[r]))
        /\ (completion[r].kind # "none" /\ "exit" \in Range(log[r])) => Len(sent[r]) = 1
        /\ (route[r] = "/auto-deploy" /\ pc[r] = "done") => Len(sent[r]) = 1

\* one /auto-deploy request was answered by the catch block after exec threw, another
\* by the callback after its subprocess failed
C10_Witness ==
    \E r1, r2 \in Requests :
        /\ sent[r1] = <<CatchResponse(SpawnError)>>
        /\ "migration" \in Range(log[r1])
        /\ sent[r2] = <<DeployFailed>>
        /\ "exit" \in Range(log[r2])

====
